---- MODULE Spec2Model ----
(***************************************************************************)
(* The MNIST convolutional-network notebook (Chapter09/09.05) as a state   *)
(* machine: the Sequential model is assembled layer by layer, compiled,    *)
(* fitted for a fixed number of epochs with a per-epoch validation pass,   *)
(* and evaluated.  The framework calls are modelled by what they do to the *)
(* notebook's state: shapes, parameter counts, the epoch/batch loop, the   *)
(* shuffled index order, dropout masks and the reported metrics.           *)
(***************************************************************************)
EXTENDS Integers, Sequences, FiniteSets, TLC

(***************************************************************************)
(* Bounds of the model.                                                    *)
(***************************************************************************)
MaxImg == 7
MaxSamples == 3
MaxBatch == 2
MaxEpochs == 1
DropUnits == 1

(***************************************************************************)
(* Values the notebook sets.                                               *)
(***************************************************************************)
seed == 1337
img_rows == 28
img_cols == 28
n_classes == 10
n_filters == 32
kernel_size == 3
pool_size == 2
dense_units == 128
batch_size == 128
epochs == 12
n_train == 60000

\* The state space of the process-wide NumPy generator, abstracted to a
\* linear congruential generator over 0..RngMod-1.
RngMod == 17

RECURSIVE Product(_)
Product(s) == IF s = <<>> THEN 1 ELSE Head(s) * Product(Tail(s))

RECURSIVE Sum(_)
Sum(s) == IF s = <<>> THEN 0 ELSE Head(s) + Sum(Tail(s))

(***************************************************************************)
(* Layers.  Every layer is a record of the same fields; a field a layer    *)
(* kind does not use is 0 or "".                                           *)
(***************************************************************************)
Layer(kind, n, k, arg) == [kind |-> kind, n |-> n, k |-> k, arg |-> arg]

Conv2D(filters, k, padding) == Layer("Conv2D", filters, k, padding)
Activation(fn) == Layer("Activation", 0, 0, fn)
MaxPooling2D(p) == Layer("MaxPooling2D", 0, p, "valid")
\* rate is kept as a percentage: Dropout(0.25) is DropoutLayer(25)
DropoutLayer(ratePct) == Layer("Dropout", ratePct, 0, "")
Flatten == Layer("Flatten", 0, 0, "")
Dense(units) == Layer("Dense", units, 0, "")

\* The padding of the first convolution, were it 'same'.
SamePadding == "same"

\* The twelve model.add calls of the notebook, in order.
NotebookPadding == "valid"

NotebookStack ==
    << Conv2D(n_filters, kernel_size, NotebookPadding),
       Activation("relu"),
       Conv2D(n_filters, kernel_size, "valid"),
       Activation("relu"),
       MaxPooling2D(pool_size),
       DropoutLayer(25),
       Flatten,
       Dense(dense_units),
       Activation("relu"),
       DropoutLayer(50),
       Dense(n_classes),
       Activation("softmax") >>

\* A stack whose Flatten comes before the second convolution: the
\* convolution is handed a flat vector.
MisorderedStack ==
    << Conv2D(n_filters, kernel_size, "valid"),
       Activation("relu"),
       Flatten,
       Conv2D(n_filters, kernel_size, "valid"),
       Dense(n_classes),
       Activation("softmax") >>

LayerStacks == {NotebookStack, MisorderedStack}

(***************************************************************************)
(* Output shapes, computed as the layer computes its output: a convolution *)
(* or pooling layer yields one output element per window position.         *)
(***************************************************************************)
\* Window start positions of a convolution along one axis, stride 1.
ConvPositions(len, k, padding) ==
    IF padding = "valid"
    THEN {i \in 1..len : i + k - 1 <= len}
    ELSE 1..len

\* Window start positions of a pooling layer along one axis; the stride is
\* the pool size and a window must lie inside the input.
PoolPositions(len, p) ==
    {i \in 1..len : (i - 1) % p = 0 /\ i + p - 1 <= len}

\* Whether the layer accepts an input of this shape.
Accepts(l, inShape) ==
    IF l.kind \in {"Conv2D", "MaxPooling2D"}
    THEN Len(inShape) = 3
    ELSE Len(inShape) >= 1

OutputShape(l, inShape) ==
    CASE l.kind = "Conv2D" ->
            << Cardinality(ConvPositions(inShape[1], l.k, l.arg)),
               Cardinality(ConvPositions(inShape[2], l.k, l.arg)),
               l.n >>
      [] l.kind = "MaxPooling2D" ->
            << Cardinality(PoolPositions(inShape[1], l.k)),
               Cardinality(PoolPositions(inShape[2], l.k)),
               inShape[3] >>
      [] l.kind = "Flatten" -> << Product(inShape) >>
      [] l.kind = "Dense" -> [inShape EXCEPT ![Len(inShape)] = l.n]
      [] OTHER -> inShape

\* A shape with an empty dimension holds no tensor.
ValidShape(shape) == \A i \in 1..Len(shape) : shape[i] >= 1

\* A check of the rank alone, which lets an empty output through.
RankOnly(l, inShape) == Accepts(l, inShape)

Compatible(l, inShape) ==
    Accepts(l, inShape) /\ ValidShape(OutputShape(l, inShape))

(***************************************************************************)
(* Trainable parameters of a layer: a kernel per (input channel, filter)   *)
(* pair plus one bias per filter; a weight per (input, unit) pair plus one *)
(* bias per unit.                                                          *)
(***************************************************************************)
\* A layer built without bias (use_bias=False).
NoBias(units) == 0

BiasCount(units) == units

ParamCount(l, inShape) ==
    CASE l.kind = "Conv2D" -> l.k * l.k * inShape[3] * l.n + BiasCount(l.n)
      [] l.kind = "Dense" -> inShape[Len(inShape)] * l.n + BiasCount(l.n)
      [] OTHER -> 0

(***************************************************************************)
(* The process-wide random generator and the in-place shuffle.             *)
(***************************************************************************)
RngNext(r) == (5 * r + 3) % RngMod

\* The states of a generator that was never seeded: any.
UnseededStates == 0..(RngMod - 1)

\* np.random.seed(seed) puts the generator in the state the seed determines.
SeedStates == {seed % RngMod}

\* Fisher-Yates, from the last position down: position i is swapped with a
\* drawn position j <= i.  Yields << shuffled array, generator state >>.
RECURSIVE ShuffleFrom(_, _, _)
ShuffleFrom(arr, r, i) ==
    IF i < 2
    THEN << arr, r >>
    ELSE LET r1 == RngNext(r)
             j == 1 + (r1 % i)
         IN ShuffleFrom([arr EXCEPT ![i] = arr[j], ![j] = arr[i]], r1, i - 1)

Shuffle(arr, r) == ShuffleFrom(arr, r, Len(arr))

\* The index array before the first epoch: the samples in dataset order.
Arange(n) == [i \in 1..n |-> i]

(***************************************************************************)
(* The epoch and batch loop of model.fit.                                  *)
(***************************************************************************)
Min(a, b) == IF a <= b THEN a ELSE b

\* Only the full batches (the partial last batch dropped).
FullBatches(n, b) == n \div b

\* Number of batch steps of an epoch over n samples.
NumBatches(n, b) == (n + b - 1) \div b

\* First and last position (in the index array) of batch i, i in 1..NumBatches.
BatchSlice(n, b, i) == << (i - 1) * b + 1, Min(n, i * b) >>

\* The sample indices of batch i.
BatchIds(arr, b, i) ==
    LET sl == BatchSlice(Len(arr), b, i) IN SubSeq(arr, sl[1], sl[2])

\* An epoch counter that advances by two.
SkipEpoch(k) == k + 2

NextEpoch(k) == k + 1

EpochsDone(k, e) == k >= e

\* The update applied before the gradients are there.
UpdateFirst == << "forward", "update", "loss", "backward" >>

\* The order of the work of one batch step.
StepOrder == << "forward", "loss", "backward", "update" >>

\* The optimizer's update of one batch step: the parameters and the
\* accumulated moving averages each move to their next value.
OptimizerUpdate(p) == p + 1

\* A forward-only pass that applied the optimizer's update all the same.
TrainsInTest(p) == p + 1

\* A forward-only pass (validation, evaluation) hands the parameters back.
ParamsAfterTest(p) == p

(***************************************************************************)
(* Dropout and the learning phase.                                         *)
(***************************************************************************)
\* Every pass taken for a training pass.
AlwaysTraining(pass) == TRUE

\* Whether a pass runs in the training phase.
LearningPhase(pass) == pass = "train"

\* What a Dropout layer did in a pass: the units it zeroed and the share
\* (percent) by which the survivors are divided; the identity zeroes no unit
\* and divides by 100%.
DropoutApply(l, pass, zeroed) ==
    IF LearningPhase(pass)
    THEN [zeroed |-> zeroed, keepPct |-> 100 - l.n]
    ELSE [zeroed |-> {}, keepPct |-> 100]

DropoutIdx(ls) == {i \in 1..Len(ls) : ls[i].kind = "Dropout"}

\* The masks a training pass may draw: any subset of a layer's units.
Masks(ls) == [DropoutIdx(ls) -> SUBSET (1..DropUnits)]

NoMask(ls) == [i \in DropoutIdx(ls) |-> {}]

DropoutStates(ls, pass, mask) ==
    [i \in DropoutIdx(ls) |-> DropoutApply(ls[i], pass, mask[i])]

\* The shapes of the layer outputs of a forward pass over one sample.
\* Each layer is handed the output of the layer before it (out is bound,
\* so that it is computed once per layer).
RECURSIVE ForwardFrom(_, _, _)
ForwardFrom(ls, inShape, done) ==
    IF ls = <<>>
    THEN done
    ELSE CHOOSE res \in {ForwardFrom(Tail(ls), out, Append(done, out)) :
                             out \in {OutputShape(Head(ls), inShape)}} : TRUE

ForwardShapes(ls, inShape) == ForwardFrom(ls, inShape, <<>>)

(***************************************************************************)
(* Reported metrics.  A (loss, accuracy) pair is determined by the         *)
(* parameters, the data set and what the Dropout layers did; it is         *)
(* identified with these.                                                  *)
(***************************************************************************)
\* Validating on the training set.
ValidateOnTrain == "X_train"

ValidationData == "X_test"

EvaluateData == "X_test"

TestLoop(ls, p, data, pass) ==
    [params |-> p, data |-> data,
     dropout |-> DropoutStates(ls, pass, NoMask(ls))]

NoMetrics == [params |-> -1, data |-> "", dropout |-> <<>>]

\* The error a failed construction raises.
ShapeMismatchError == "ShapeMismatchError"

(***************************************************************************)
(* State.                                                                  *)
(***************************************************************************)
VARIABLES
    input_shape,   \* the shape of one input image
    todo,          \* the layers still to be added
    layers,        \* the layers of the model, in order
    outShapes,     \* the declared output shape of each layer of the model
    paramCounts,   \* the number of trainable parameters of each layer
    built,         \* "building", "ok" or ShapeMismatchError
    compiled,      \* whether model.compile has run
    nTrain,        \* number of training samples
    batchSize,     \* batch_size of the fit call
    nEpochs,       \* epochs of the fit call
    trainer,       \* "Idle", "Epoch", "BatchStep", "Validated", "Done"
    epoch,         \* the current epoch, 0 before the first
    index_array,   \* the (shuffled) order of the training sample indices
    batchIdx,      \* number of batch steps completed in this epoch
    inflight,      \* the batches a step has begun and not yet finished
    phases,        \* the work done so far on the batch in flight
    seenBatches,   \* the batches completed in this epoch
    params,        \* the value of the layer parameters
    accum,         \* the value of the optimizer's moving averages
    rng,           \* state of the process-wide random generator
    pass,          \* the phase of the latest forward pass: "", "train", "test"
    dropout,       \* what each Dropout layer did in the latest forward pass
    fwdShapes,     \* layer output shapes of the latest forward pass
    epochLog,      \* the epochs begun, in order
    valLog,        \* the validation metrics reported, one per epoch
    evalResult,    \* what model.evaluate returned
    runRng,        \* two runs side by side: generator state of each
    runIndex,      \* ... index array of each
    runOrders,     \* ... the index order of every epoch run so far
    runBatches     \* ... the batches of every epoch run so far

buildVars == << input_shape, todo, layers, outShapes, paramCounts, built, compiled >>
configVars == << nTrain, batchSize, nEpochs >>
trainVars == << trainer, epoch, index_array, batchIdx, inflight, phases,
                seenBatches, params, accum, rng, pass, dropout, fwdShapes,
                epochLog, valLog, evalResult >>
runVars == << runRng, runIndex, runOrders, runBatches >>
vars == << buildVars, configVars, trainVars, runVars >>

Runs == {"A", "B"}

ImageSizes == (1..MaxImg) \cup {img_rows, img_cols}
EpochCounts == (1..MaxEpochs) \cup {epochs}

\* Square images and images of the notebook's width.
InputShapes ==
    UNION {{<< h, h, 1 >>, << h, img_cols, 1 >>} : h \in ImageSizes}

ConfigInit ==
    /\ nTrain \in 1..MaxSamples
    /\ batchSize \in 1..MaxBatch
    /\ nEpochs \in EpochCounts

TrainInit ==
    /\ trainer = "Idle"
    /\ epoch = 0
    /\ index_array = Arange(nTrain)
    /\ batchIdx = 0
    /\ inflight = {}
    /\ phases = <<>>
    /\ seenBatches = <<>>
    /\ params = 0
    /\ accum = 0
    /\ rng \in SeedStates
    /\ pass = ""
    /\ dropout = <<>>
    /\ fwdShapes = <<>>
    /\ epochLog = <<>>
    /\ valLog = <<>>
    /\ evalResult = NoMetrics

RunsIdle ==
    /\ runRng = [r \in Runs |-> 0]
    /\ runIndex = [r \in Runs |-> <<>>]
    /\ runOrders = [r \in Runs |-> <<>>]
    /\ runBatches = [r \in Runs |-> <<>>]

Init ==
    /\ input_shape \in InputShapes
    /\ todo \in LayerStacks
    /\ layers = <<>>
    /\ outShapes = <<>>
    /\ paramCounts = <<>>
    /\ built = "building"
    /\ compiled = FALSE
    /\ ConfigInit
    /\ TrainInit
    /\ RunsIdle

(***************************************************************************)
(* Assembling the model.                                                   *)
(***************************************************************************)
\* The shape the next layer is handed.
CurrentShape == IF layers = <<>> THEN input_shape ELSE outShapes[Len(outShapes)]

\* model.add(layer): the layer is built on the output of the layers before.
AddLayer ==
    /\ built = "building"
    /\ todo # <<>>
    /\ Compatible(Head(todo), CurrentShape)
    /\ layers' = Append(layers, Head(todo))
    /\ outShapes' = Append(outShapes, OutputShape(Head(todo), CurrentShape))
    /\ paramCounts' = Append(paramCounts, ParamCount(Head(todo), CurrentShape))
    /\ todo' = Tail(todo)
    /\ built' = IF Tail(todo) = <<>> THEN "ok" ELSE "building"
    /\ UNCHANGED << input_shape, compiled, configVars, trainVars, runVars >>

\* model.add(layer) of a layer that does not fit the layers before.
AddLayerFails ==
    /\ built = "building"
    /\ todo # <<>>
    /\ ~Compatible(Head(todo), CurrentShape)
    /\ built' = ShapeMismatchError
    /\ UNCHANGED << input_shape, todo, layers, outShapes, paramCounts, compiled,
                    configVars, trainVars, runVars >>

\* model.compile(loss, optimizer, metrics)
Compile ==
    /\ built = "ok"
    /\ ~compiled
    /\ compiled' = TRUE
    /\ UNCHANGED << input_shape, todo, layers, outShapes, paramCounts, built,
                    configVars, trainVars, runVars >>

(***************************************************************************)
(* model.fit                                                               *)
(***************************************************************************)
\* An epoch begins: the index array is shuffled in place.
BeginEpoch ==
    /\ compiled
    /\ \/ trainer = "Idle"
       \/ trainer = "Validated" /\ ~EpochsDone(epoch, nEpochs)
    /\ LET sh == Shuffle(index_array, rng)
       IN /\ index_array' = sh[1]
          /\ rng' = sh[2]
    /\ epoch' = NextEpoch(epoch)
    /\ epochLog' = Append(epochLog, NextEpoch(epoch))
    /\ trainer' = "Epoch"
    /\ batchIdx' = 0
    /\ seenBatches' = <<>>
    /\ UNCHANGED << buildVars, configVars, inflight, phases, params, accum,
                    pass, dropout, fwdShapes, valLog, evalResult, runVars >>

\* Forward pass of the next batch, in the training phase.
Forward ==
    /\ trainer = "Epoch"
    /\ batchIdx < NumBatches(nTrain, batchSize)
    /\ \E mask \in Masks(layers) :
           dropout' = DropoutStates(layers, "train", mask)
    /\ pass' = "train"
    /\ fwdShapes' = ForwardShapes(layers, input_shape)
    /\ inflight' = inflight \cup {batchIdx + 1}
    /\ phases' = << StepOrder[1] >>
    /\ trainer' = "BatchStep"
    /\ UNCHANGED << buildVars, configVars, epoch, index_array, batchIdx,
                    seenBatches, params, accum, rng, epochLog, valLog,
                    evalResult, runVars >>

\* Loss, then backward pass, of the batch in flight.
LossOrBackward ==
    /\ trainer = "BatchStep"
    /\ Len(phases) < Len(StepOrder) - 1
    /\ phases' = Append(phases, StepOrder[Len(phases) + 1])
    /\ UNCHANGED << buildVars, configVars, trainer, epoch, index_array, batchIdx,
                    inflight, seenBatches, params, accum, rng, pass, dropout,
                    fwdShapes, epochLog, valLog, evalResult, runVars >>

\* The optimizer's update ends the batch step.
Update ==
    /\ trainer = "BatchStep"
    /\ Len(phases) = Len(StepOrder) - 1
    /\ phases' = Append(phases, StepOrder[Len(StepOrder)])
    /\ params' = OptimizerUpdate(params)
    /\ accum' = OptimizerUpdate(accum)
    /\ seenBatches' = Append(seenBatches, BatchIds(index_array, batchSize, batchIdx + 1))
    /\ batchIdx' = batchIdx + 1
    /\ inflight' = inflight \ {batchIdx + 1}
    /\ trainer' = "Epoch"
    /\ UNCHANGED << buildVars, configVars, epoch, index_array, rng, pass,
                    dropout, fwdShapes, epochLog, valLog, evalResult, runVars >>

\* After the last batch of an epoch: the validation pass over validation_data.
Validate ==
    /\ trainer = "Epoch"
    /\ batchIdx >= NumBatches(nTrain, batchSize)
    /\ inflight = {}
    /\ pass' = "test"
    /\ dropout' = DropoutStates(layers, "test", NoMask(layers))
    /\ fwdShapes' = ForwardShapes(layers, input_shape)
    /\ valLog' = Append(valLog, TestLoop(layers, params, ValidationData, "test"))
    /\ params' = ParamsAfterTest(params)
    /\ accum' = ParamsAfterTest(accum)
    /\ trainer' = "Validated"
    /\ UNCHANGED << buildVars, configVars, epoch, index_array, batchIdx, inflight,
                    phases, seenBatches, rng, epochLog, evalResult, runVars >>

\* The last epoch is over: fit returns.
Finish ==
    /\ trainer = "Validated"
    /\ EpochsDone(epoch, nEpochs)
    /\ trainer' = "Done"
    /\ UNCHANGED << buildVars, configVars, epoch, index_array, batchIdx, inflight,
                    phases, seenBatches, params, accum, rng, pass, dropout,
                    fwdShapes, epochLog, valLog, evalResult, runVars >>

\* model.evaluate(X_test, Y_test)
Evaluate ==
    /\ trainer = "Done"
    /\ evalResult = NoMetrics
    /\ pass' = "test"
    /\ dropout' = DropoutStates(layers, "test", NoMask(layers))
    /\ fwdShapes' = ForwardShapes(layers, input_shape)
    /\ evalResult' = TestLoop(layers, params, EvaluateData, "test")
    /\ params' = ParamsAfterTest(params)
    /\ accum' = ParamsAfterTest(accum)
    /\ UNCHANGED << buildVars, configVars, trainer, epoch, index_array, batchIdx,
                    inflight, phases, seenBatches, rng, epochLog, valLog, runVars >>

Next ==
    \/ AddLayer
    \/ AddLayerFails
    \/ Compile
    \/ BeginEpoch
    \/ Forward
    \/ LossOrBackward
    \/ Update
    \/ Validate
    \/ Finish
    \/ Evaluate

Spec == Init /\ [][Next]_vars

\* The notebook runs its cells to the end: a step that can be taken is taken.
FairSpec == Spec /\ WF_vars(Next)

(***************************************************************************)
(* Two runs of the epoch loop side by side, each in its own process, on    *)
(* the same data set with the same configuration.                          *)
(***************************************************************************)
TwoRunsInit ==
    /\ input_shape = << img_rows, img_cols, 1 >>
    /\ todo = <<>>
    /\ layers = NotebookStack
    /\ outShapes = ForwardShapes(NotebookStack, << img_rows, img_cols, 1 >>)
    /\ paramCounts = <<>>
    /\ built = "ok"
    /\ compiled = TRUE
    /\ ConfigInit
    /\ TrainInit
    /\ runRng \in [Runs -> SeedStates]
    /\ runIndex = [r \in Runs |-> Arange(nTrain)]
    /\ runOrders = [r \in Runs |-> <<>>]
    /\ runBatches = [r \in Runs |-> <<>>]

\* Run r begins its next epoch: shuffles its index array and forms batches.
RunEpoch(r) ==
    /\ Len(runOrders[r]) < nEpochs
    /\ LET sh == Shuffle(runIndex[r], runRng[r])
       IN /\ runIndex' = [runIndex EXCEPT ![r] = sh[1]]
          /\ runRng' = [runRng EXCEPT ![r] = sh[2]]
          /\ runOrders' = [runOrders EXCEPT ![r] = Append(@, sh[1])]
          /\ runBatches' = [runBatches EXCEPT ![r] =
                 Append(@, [i \in 1..NumBatches(nTrain, batchSize) |->
                                BatchIds(sh[1], batchSize, i)])]
    /\ UNCHANGED << buildVars, configVars, trainVars >>

TwoRunsNext == \E r \in Runs : RunEpoch(r)

SpecTwoRuns == TwoRunsInit /\ [][TwoRunsNext]_vars

(***************************************************************************)
(* Properties.                                                             *)
(***************************************************************************)
\* The least m with n <= m * b, stated without the division of the loop.
CeilDiv(n, b) == CHOOSE m \in 1..n : (m - 1) * b < n /\ n <= m * b

\* How often sample s occurs in a sequence of batches.
Occurrences(bs, s) ==
    Cardinality({ij \in {<< i, j >> : i \in 1..Len(bs), j \in 1..MaxSamples + 1} :
                    ij[2] <= Len(bs[ij[1]]) /\ bs[ij[1]][ij[2]] = s})

RECURSIVE Concat(_)
Concat(bs) == IF bs = <<>> THEN <<>> ELSE Head(bs) \o Concat(Tail(bs))

\* C1 (safety part): the epochs begun so far are 1, 2, ..., epoch in this
\* order, never more than the configured count; fit is Done only after
\* exactly nEpochs epochs, each with its validation report; with epochs=12
\* the epochs run are the twelve of the recorded output.
C1_EpochOrder ==
    /\ Len(epochLog) = epoch
    /\ \A i \in 1..Len(epochLog) : epochLog[i] = i
    /\ epoch <= nEpochs
    /\ trainer = "Idle" <=> epoch = 0
    /\ trainer = "Done" => epoch = nEpochs /\ Len(valLog) = nEpochs
    /\ (trainer = "Done" /\ nEpochs = epochs) =>
           epochLog = << 1, 2, 3, 4, 5, 6, 7, 8, 9, 10, 11, 12 >>

\* C1: a training run with a fixed epoch count E, once started, runs
\* Epoch(1), ..., Epoch(E) in increasing order with none skipped or repeated
\* and reaches Done, after exactly E epochs.
C1_Terminates ==
    /\ []C1_EpochOrder
    /\ (trainer # "Idle") ~> (trainer = "Done")

C1_Witness ==
    /\ trainer = "Done"
    /\ nEpochs = epochs
    /\ Len(epochLog) = 12
    /\ nTrain > batchSize

\* C2: the batches of an epoch are contiguous slices of the index order;
\* every batch but the last has exactly batchSize samples, the last has
\* between 1 and batchSize; when the epoch's batches are done every sample
\* index is in exactly one of them and there were ceil(N/B) batch steps
\* (also for N=60000, B=128).
C2_BatchesPartition ==
    /\ Concat(seenBatches) = SubSeq(index_array, 1, Len(Concat(seenBatches)))
    /\ \A i \in 1..Len(seenBatches) :
          /\ Len(seenBatches[i]) >= 1
          /\ Len(seenBatches[i]) <= batchSize
          /\ i < Len(seenBatches) => Len(seenBatches[i]) = batchSize
    /\ \A s \in 1..nTrain : Occurrences(seenBatches, s) <= 1
    /\ trainer \in {"Validated", "Done"} =>
          /\ \A s \in 1..nTrain : Occurrences(seenBatches, s) = 1
          /\ Len(seenBatches) = CeilDiv(nTrain, batchSize)
          /\ batchIdx = CeilDiv(nTrain, batchSize)
    /\ (NumBatches(n_train, batch_size) - 1) * batch_size < n_train
    /\ n_train <= NumBatches(n_train, batch_size) * batch_size

C2_Witness ==
    /\ trainer = "Validated"
    /\ nTrain = 3
    /\ batchSize = 2
    /\ Len(seenBatches) = 2
    /\ Len(seenBatches[2]) = 1
    /\ index_array # Arange(3)

\* C3: a batch step does forward, loss, backward, update in this order; at
\* most one batch is in flight; the parameters have been updated exactly
\* once for every batch completed, so the update of batch i is applied
\* before the forward pass of batch i+1.
C3_OneUpdatePerBatch ==
    /\ Cardinality(inflight) <= 1
    /\ trainer = "BatchStep" =>
          /\ inflight = {batchIdx + 1}
          /\ phases \in { << "forward" >>,
                          << "forward", "loss" >>,
                          << "forward", "loss", "backward" >> }
    /\ trainer # "BatchStep" =>
          /\ inflight = {}
          /\ phases \in { <<>>, << "forward", "loss", "backward", "update" >> }
    /\ epoch >= 1 =>
          params = (epoch - 1) * CeilDiv(nTrain, batchSize) + Len(seenBatches)
    /\ batchIdx = Len(seenBatches)

C3_Witness ==
    /\ trainer = "BatchStep"
    /\ phases = << "forward", "loss", "backward" >>
    /\ inflight = {2}
    /\ epoch = 2
    /\ params = CeilDiv(nTrain, batchSize) + 1

\* C4: the layer parameters and the optimizer's moving averages change only
\* in the update of a training batch step; a validation or evaluation pass
\* leaves both as they were.
C4_OnlyOptimizerMutates ==
    [][ /\ (params' # params \/ accum' # accum) =>
             /\ trainer = "BatchStep"
             /\ phases = << "forward", "loss", "backward" >>
             /\ phases' = << "forward", "loss", "backward", "update" >>
        /\ (valLog' # valLog \/ evalResult' # evalResult) =>
             /\ params' = params
             /\ accum' = accum ]_vars

C4_Witness ==
    /\ evalResult # NoMetrics
    /\ Len(valLog) = epochs
    /\ params = epochs * CeilDiv(nTrain, batchSize)
    /\ accum = params

\* The closed-form output shape, by layer kind.
C5_Predicted(l, inShape) ==
    CASE l.kind = "Conv2D" ->
            << inShape[1] - l.k + 1, inShape[2] - l.k + 1, l.n >>
      [] l.kind = "MaxPooling2D" /\ l.k = 2 ->
            << inShape[1] \div 2, inShape[2] \div 2, inShape[3] >>
      [] l.kind = "Flatten" /\ Len(inShape) = 3 ->
            << inShape[1] * inShape[2] * inShape[3] >>
      [] l.kind = "Dense" /\ Len(inShape) = 1 -> << l.n >>
      [] l.kind \in {"Activation", "Dropout"} -> inShape

C5_ShapesOf(shs) ==
    \A i \in 1..Len(shs) :
        shs[i] = C5_Predicted(layers[i], IF i = 1 THEN input_shape ELSE shs[i - 1])

\* C5: the output shape of every layer, as declared when the layer is added
\* and as produced by a forward pass, is the predicted one: Conv2D (valid,
\* stride 1) in - kernel + 1 with `filters` channels, MaxPooling2D(2,2) half
\* of each spatial dimension (integer division), Flatten the product, Dense
\* its units, Activation and Dropout the input shape; on 28x28x1 the
\* notebook's stack gives the shapes of the model summary.
C5_ShapesAsPredicted ==
    /\ built \in {"building", "ok"} => C5_ShapesOf(outShapes)
    /\ pass # "" => Len(fwdShapes) = Len(layers) /\ C5_ShapesOf(fwdShapes)
    /\ (built = "ok" /\ Len(layers) = 12 /\ input_shape = << 28, 28, 1 >>) =>
          outShapes = << << 26, 26, 32 >>, << 26, 26, 32 >>, << 24, 24, 32 >>,
                         << 24, 24, 32 >>, << 12, 12, 32 >>, << 12, 12, 32 >>,
                         << 4608 >>, << 128 >>, << 128 >>, << 128 >>,
                         << 10 >>, << 10 >> >>

C5_Witness ==
    /\ built = "ok"
    /\ Len(layers) = 12
    /\ input_shape = << 7, 28, 1 >>
    /\ pass = "train"
    /\ fwdShapes[5] = << 1, 12, 32 >>

\* C6: the notebook's network on a 28x28x1 input has 320 + 9,248 + 589,952
\* + 1,290 = 600,810 trainable parameters, and its Activation,
\* MaxPooling2D, Dropout and Flatten layers have none.
C6_ParamCount ==
    /\ (built = "ok" /\ Len(layers) = 12 /\ input_shape = << 28, 28, 1 >>) =>
          /\ paramCounts = << 320, 0, 9248, 0, 0, 0, 0, 589952, 0, 0, 1290, 0 >>
          /\ Sum(paramCounts) = 600810
    /\ \A i \in 1..Len(layers) :
          layers[i].kind \in {"Activation", "MaxPooling2D", "Dropout", "Flatten"}
              => paramCounts[i] = 0
    /\ 320 + 9248 + 589952 + 1290 = 600810

C6_Witness ==
    /\ built = "ok"
    /\ compiled
    /\ Len(layers) = 12
    /\ input_shape = << 28, 28, 1 >>
    /\ Sum(paramCounts) = 600810

\* C7: in a validation pass and in the evaluation pass (the test phase)
\* both Dropout layers are the identity: no unit is zeroed and none is
\* rescaled; a unit is zeroed or rescaled only in a training batch step.
C7_DropoutOnlyInTraining ==
    /\ pass = "test" =>
          /\ DOMAIN dropout = {i \in 1..Len(layers) : layers[i].kind = "Dropout"}
          /\ \A i \in DOMAIN dropout :
                dropout[i].zeroed = {} /\ dropout[i].keepPct = 100
    /\ (\E i \in DOMAIN dropout :
            dropout[i].zeroed # {} \/ dropout[i].keepPct # 100) =>
          pass = "train"

C7_Witness ==
    /\ pass = "test"
    /\ trainer = "Validated"
    /\ DOMAIN dropout = {6, 10}
    /\ params > 0

C9_Fits(l, inShape) ==
    CASE l.kind = "Conv2D" ->
            Len(inShape) = 3 /\ inShape[1] >= l.k /\ inShape[2] >= l.k
      [] l.kind = "MaxPooling2D" ->
            Len(inShape) = 3 /\ inShape[1] >= l.k /\ inShape[2] >= l.k
      [] OTHER -> Len(inShape) >= 1

\* C9: a layer that does not fit the output of the layer before it never
\* becomes part of the model: adding it fails with ShapeMismatchError, at
\* the add; and no forward pass, batch step or parameter update runs unless
\* the whole stack was assembled.
C9_EagerShapeCheck ==
    /\ \A i \in 1..Len(layers) :
          C9_Fits(layers[i], IF i = 1 THEN input_shape ELSE outShapes[i - 1])
    /\ built = ShapeMismatchError =>
          /\ todo # <<>>
          /\ ~C9_Fits(Head(todo), CurrentShape)
    /\ (built = "building" /\ todo # <<>> /\ ~C9_Fits(Head(todo), CurrentShape)) =>
          ~ENABLED AddLayer /\ ENABLED AddLayerFails
    /\ built # "ok" =>
          /\ ~compiled
          /\ trainer = "Idle"
          /\ pass = ""
          /\ fwdShapes = <<>>
          /\ params = 0
          /\ accum = 0

C9_Witness ==
    /\ built = ShapeMismatchError
    /\ Len(layers) = 3
    /\ Len(CurrentShape) = 1
    /\ Head(todo).kind = "Conv2D"

\* The loss of the last epoch's validation report as printed (4 decimals,
\* times 10^4) and the loss model.evaluate returned (cut to 6 decimals,
\* times 10^6); the accuracies, times 10^4.
RecordedValLoss == 302
RecordedEvalLoss == 30189
RecordedValAcc == 9900
RecordedEvalAcc == 9900

\* C10: the pair model.evaluate returns equals the validation loss and
\* accuracy reported for the last epoch: same data, same parameters, both
\* forward-only.
C10_EvaluateEqualsLastValidation ==
    /\ evalResult # NoMetrics =>
          /\ Len(valLog) = nEpochs
          /\ evalResult = valLog[nEpochs]
    /\ (RecordedEvalLoss + 50) \div 100 = RecordedValLoss
    /\ RecordedEvalAcc = RecordedValAcc

C10_Witness ==
    /\ evalResult # NoMetrics
    /\ nEpochs = epochs
    /\ evalResult.params = epochs * CeilDiv(nTrain, batchSize)
    /\ evalResult.data = "X_test"

====
